---- MODULE Spec2Model ----
(***************************************************************************)
(* Model of src/server.js: the POST /upload handler of the image resizer.  *)
(*                                                                         *)
(* One invocation of the async handler is a sequence of atomic blocks      *)
(* separated by its await points (sharp(...).toBuffer(), the two           *)
(* twitterClient.post calls).  Each action below is one such block: it     *)
(* settles the call the invocation is waiting for (it returned or threw)   *)
(* and runs the handler up to its next await or to the response.           *)
(* Several invocations may be in flight; their blocks interleave.          *)
(***************************************************************************)
EXTENDS Integers, Sequences, FiniteSets, TLC

VARIABLES
  reqs,            \* the requests that reach the handler in this run
  file,            \* req.file of each request (NoFile when undefined)
  pc,              \* where each invocation is suspended
  idx,             \* iterations the current for..of loop has started
  resizedBuffers,  \* const resizedBuffers = []   (line 94)
  mediaIds,        \* const mediaIds = []         (line 104)
  calls,           \* the library / external calls issued, with their results
  responses        \* what was sent on res

vars == <<reqs, file, pc, idx, resizedBuffers, mediaIds, calls, responses>>

\* Number of requests in flight together in the concurrent specification.
NumReq == 2

Req == 1..NumReq

----------------------------------------------------------------------------
\* Program constants

\* variant: a fourth format allowed
allowedFormatsWithWebp == <<"image/jpeg", "image/png", "image/gif", "image/webp">>
allowedFormats == <<"image/jpeg", "image/png", "image/gif">>

PREDEFINED_SIZES ==
  << [width |-> 300, height |-> 250],
     [width |-> 728, height |-> 90],
     [width |-> 160, height |-> 600],
     [width |-> 300, height |-> 600] >>

TWEET_STATUS == "Automatically resized images!"

NO_FILE_BODY == "No file uploaded."
UNSUPPORTED_BODY == "Unsupported file format."
INTERNAL_ERROR_BODY == "An internal error occurred."
SUCCESS_HTML ==
  "\n      <h2>Success!</h2>\n      <p>Your image was resized and posted to your X/Twitter account (check logs for details).</p>\n      <a href=\"/\">Go Back</a>\n    "

----------------------------------------------------------------------------
\* Inputs

\* req.file is undefined when the multipart body has no "image" field.
NoFile == [undefined |-> TRUE]

\* Declared content types tried: the three allowed ones and three others.
MimeTypes ==
  {"image/jpeg", "image/png", "image/gif", "image/webp", "text/plain", "IMAGE/JPEG"}

UploadedFile(m) == [mimetype |-> m, buffer |-> "original"]

Files == {NoFile} \cup {UploadedFile(m) : m \in MimeTypes}

\* Files of the concurrent specification: one of each validation outcome.
ConcFiles == {NoFile, UploadedFile("text/plain"), UploadedFile("image/jpeg")}

----------------------------------------------------------------------------
\* Library behaviour the handler relies on

\* Array.prototype.includes
Includes(arr, x) == \E k \in 1..Len(arr) : arr[k] = x

\* Array.prototype.push
\* variant: unshift instead of push
PushFront(arr, x) == <<x>> \o arr
Push(arr, x) == Append(arr, x)

\* Array.prototype.join: elements separated by sep, "" for the empty array
RECURSIVE Join(_, _)
Join(arr, sep) ==
  IF Len(arr) = 0 THEN ""
  ELSE IF Len(arr) = 1 THEN arr[1]
  ELSE arr[1] \o sep \o Join(Tail(arr), sep)

\* sharp(input).resize(w, h, {fit: 'cover'}).toBuffer(): an image of exactly
\* w x h cropped from the input.
SharpResize(input, w, h, fit) == [from |-> input, width |-> w, height |-> h, fit |-> fit]

\* Buffer.prototype.toString('base64'): an injective text encoding
Base64(buf) == [base64 |-> buf]

\* media_id_string of the response to the upload that request r makes for
\* its i-th image: the service issues a new identifier for every upload.
MediaIdOf(r, i) == ToString(r) \o ToString(i)

Pending == [status |-> "pending"]
Threw == [status |-> "threw"]
Returned(v) == [status |-> "ok", value |-> v]

----------------------------------------------------------------------------
\* The handler, as functions on the state of one invocation L

\* The scope the handler's const arrays live in: one per invocation.
\* variant: the arrays declared at module level
SharedScope(r) == 1
HandlerScope(r) == r

View(r) ==
  [ id |-> r, file |-> file[r], pc |-> pc[r], idx |-> idx[r],
    resizedBuffers |-> resizedBuffers[HandlerScope(r)],
    mediaIds |-> mediaIds[HandlerScope(r)],
    calls |-> calls[r], responses |-> responses[r] ]

Commit(r, L) ==
  /\ pc' = [pc EXCEPT ![r] = L.pc]
  /\ idx' = [idx EXCEPT ![r] = L.idx]
  /\ resizedBuffers' = [resizedBuffers EXCEPT ![HandlerScope(r)] = L.resizedBuffers]
  /\ mediaIds' = [mediaIds EXCEPT ![HandlerScope(r)] = L.mediaIds]
  /\ calls' = [calls EXCEPT ![r] = L.calls]
  /\ responses' = [responses EXCEPT ![r] = L.responses]
  /\ UNCHANGED <<reqs, file>>

\* res.status(s).send(b); nothing of the handler runs after it
Respond(L, s, b) ==
  [L EXCEPT !.responses = Append(@, [status |-> s, body |-> b]), !.pc = "done"]

\* await <call>: the call is issued and the invocation suspends at `at`
Await(L, op, arg, at) ==
  [L EXCEPT !.calls = Append(@, [op |-> op, arg |-> arg, result |-> Pending]),
            !.pc = at]

\* the awaited call settles with result res
Settle(L, res) == [L EXCEPT !.calls[Len(L.calls)].result = res]

\* !req.file, then !allowedFormats.includes(req.file.mimetype)
\* variant: the two rejections exchanged
ValidateSwapped(f) ==
  IF f = NoFile THEN "UnsupportedFormat"
  ELSE IF ~Includes(allowedFormats, f.mimetype) THEN "MissingFile"
  ELSE "Ok"
Validate(f) ==
  IF f = NoFile THEN "MissingFile"
  ELSE IF ~Includes(allowedFormats, f.mimetype) THEN "UnsupportedFormat"
  ELSE "Ok"

\* catch (error) { ...; res.status(500).send(...) }
OuterCatch(L) == Respond(L, 500, INTERNAL_ERROR_BODY)

\* return res.status(400).send('No file uploaded.')
\* variant: the return forgotten, so req.file.mimetype throws into the outer catch
RejectMissingFallThrough(L) == OuterCatch(Respond(L, 400, NO_FILE_BODY))
RejectMissing(L) == Respond(L, 400, NO_FILE_BODY)

\* return res.status(400).send('Unsupported file format.')
RejectUnsupported(L) == Respond(L, 400, UNSUPPORTED_BODY)

\* res.status(200).send(`...Success!...`)
SendSuccess(L) == Respond(L, 200, SUCCESS_HTML)

\* if (mediaIds.length > 0)
\* variant: >= for >
ShouldPostAlways(ids) == Len(ids) >= 0
ShouldPost(ids) == Len(ids) > 0

\* lines 121-132: post the tweet if any upload succeeded, then respond
TweetPhase(L) ==
  IF ShouldPost(L.mediaIds)
  THEN Await(L, "statuses/update",
             [status |-> TWEET_STATUS, media_ids |-> Join(L.mediaIds, ",")],
             "post")
  ELSE SendSuccess(L)

\* for (const item of resizedBuffers): next iteration, or the loop's exit
UploadLoop(L) ==
  IF L.idx < Len(L.resizedBuffers)
  THEN Await([L EXCEPT !.idx = @ + 1], "media/upload",
             [media_data |-> Base64(L.resizedBuffers[L.idx + 1].buffer)],
             "upload")
  ELSE TweetPhase(L)

\* { buffer: resizedImageBuffer, width: size.width, height: size.height }
\* variant: width and height exchanged
ResizedEntrySwapped(buf, size) == [buffer |-> buf, width |-> size.height, height |-> size.width]
ResizedEntry(buf, size) == [buffer |-> buf, width |-> size.width, height |-> size.height]

\* for (const size of PREDEFINED_SIZES): next iteration, or on to
\* const mediaIds = [] and the upload loop
ResizeLoop(L) ==
  IF L.idx < Len(PREDEFINED_SIZES)
  THEN LET size == PREDEFINED_SIZES[L.idx + 1] IN
       Await([L EXCEPT !.idx = @ + 1], "resize",
             [input |-> L.file.buffer, width |-> size.width,
              height |-> size.height, fit |-> "cover"],
             "resize")
  ELSE UploadLoop([L EXCEPT !.mediaIds = <<>>, !.idx = 0])

\* a throw in the resize loop is not caught before the outer catch
\* variant: the error swallowed inside the loop
OnResizeErrorSkip(L) == ResizeLoop(L)
OnResizeError(L) == OuterCatch(L)

\* catch (error) { console.error('Media upload error:', error) }
\* variant: the loop left at the first failure
OnUploadErrorBreak(L) == TweetPhase(L)
OnUploadError(L) == UploadLoop(L)

\* catch (error) { console.error('Error posting images:', error) }
\* variant: the error left to the outer catch
OnPostErrorAbort(L) == OuterCatch(L)
OnPostError(L) == SendSuccess(L)

----------------------------------------------------------------------------
\* Actions: one per atomic block of an invocation

Waiting(r, at) ==
  /\ r \in reqs
  /\ pc[r] = at
  /\ Len(calls[r]) > 0
  /\ calls[r][Len(calls[r])].result = Pending

\* lines 81-83
MissingFile(r) ==
  /\ r \in reqs
  /\ pc[r] = "received"
  /\ Validate(file[r]) = "MissingFile"
  /\ Commit(r, RejectMissing(View(r)))

\* lines 86-88
UnsupportedFormat(r) ==
  /\ r \in reqs
  /\ pc[r] = "received"
  /\ Validate(file[r]) = "UnsupportedFormat"
  /\ Commit(r, RejectUnsupported(View(r)))

\* lines 91-96: the file is accepted and the first resize is started
Accept(r) ==
  /\ r \in reqs
  /\ pc[r] = "received"
  /\ Validate(file[r]) = "Ok"
  /\ Commit(r, ResizeLoop([View(r) EXCEPT !.resizedBuffers = <<>>, !.idx = 0]))

\* lines 96-99: toBuffer() resolved
ResizeReturns(r) ==
  /\ Waiting(r, "resize")
  /\ LET L == View(r)
         a == L.calls[Len(L.calls)].arg
         buf == SharpResize(a.input, a.width, a.height, a.fit)
         size == PREDEFINED_SIZES[L.idx]
     IN Commit(r, ResizeLoop([Settle(L, Returned(buf)) EXCEPT
                   !.resizedBuffers = Push(@, ResizedEntry(buf, size))]))

\* lines 96-98, 140-143: sharp rejected (undecodable input, resize failure)
ResizeThrows(r) ==
  /\ Waiting(r, "resize")
  /\ Commit(r, OnResizeError(Settle(View(r), Threw)))

\* lines 110-114: media/upload resolved
UploadReturns(r) ==
  /\ Waiting(r, "upload")
  /\ LET L == View(r)
         mediaUploadResponse == [media_id_string |-> MediaIdOf(r, L.idx)]
     IN Commit(r, UploadLoop([Settle(L, Returned(mediaUploadResponse)) EXCEPT
                   !.mediaIds = Push(@, mediaUploadResponse.media_id_string)]))

\* lines 115-117: media/upload rejected
UploadThrows(r) ==
  /\ Waiting(r, "upload")
  /\ Commit(r, OnUploadError(Settle(View(r), Threw)))

\* lines 124-128, 135: statuses/update resolved
PostReturns(r) ==
  /\ Waiting(r, "post")
  /\ Commit(r, SendSuccess(Settle(View(r), Returned([posted |-> TRUE]))))

\* lines 129-131, 135: statuses/update rejected
PostThrows(r) ==
  /\ Waiting(r, "post")
  /\ Commit(r, OnPostError(Settle(View(r), Threw)))

Step(r) ==
  \/ MissingFile(r)
  \/ UnsupportedFormat(r)
  \/ Accept(r)
  \/ ResizeReturns(r)
  \/ ResizeThrows(r)
  \/ UploadReturns(r)
  \/ UploadThrows(r)
  \/ PostReturns(r)
  \/ PostThrows(r)

Next == \E r \in Req : Step(r)

InitWith(rs, fs) ==
  /\ reqs = rs
  /\ file \in [Req -> fs \cup {NoFile}]
  /\ \A r \in Req \ rs : file[r] = NoFile
  /\ pc = [r \in Req |-> "received"]
  /\ idx = [r \in Req |-> 0]
  /\ resizedBuffers = [r \in Req |-> <<>>]
  /\ mediaIds = [r \in Req |-> <<>>]
  /\ calls = [r \in Req |-> <<>>]
  /\ responses = [r \in Req |-> <<>>]

\* one request, any file
Init == InitWith({1}, Files)

\* NumReq requests in flight together
ConcInit == InitWith(Req, ConcFiles)

Spec == Init /\ [][Next]_vars

ConcSpec == ConcInit /\ [][Next]_vars

\* every awaited call eventually returns or throws, and the event loop then
\* resumes the invocation
LiveSpec == Init /\ [][Next]_vars /\ \A r \in Req : WF_vars(Step(r))

----------------------------------------------------------------------------
\* Reading the history of a request

CallsOf(r, op) == SelectSeq(calls[r], LAMBDA c : c.op = op)

Resizes(r) == CallsOf(r, "resize")
Uploads(r) == CallsOf(r, "media/upload")
Posts(r) == CallsOf(r, "statuses/update")

Ok(c) == c.result.status = "ok"
Failed(c) == c.result.status = "threw"
InFlight(c) == c.result.status = "pending"

\* the identifiers the service returned to request r, in the order returned
ReturnedIds(r) ==
  LET ok == SelectSeq(Uploads(r), Ok)
  IN [k \in 1..Len(ok) |-> ok[k].result.value.media_id_string]

NoRepeat(s) == \A j, k \in 1..Len(s) : j # k => s[j] # s[k]

AllResized(r) == Len(Resizes(r)) = 4 /\ \A k \in 1..4 : Ok(Resizes(r)[k])

\* the image the k-th configured size yields from the uploaded bytes
ExpectedDims == << <<300, 250>>, <<728, 90>>, <<160, 600>>, <<300, 600>> >>
ExpectedImage(k) ==
  [from |-> "original", width |-> ExpectedDims[k][1],
   height |-> ExpectedDims[k][2], fit |-> "cover"]

SuccessResponse == [status |-> 200, body |-> SUCCESS_HTML]

----------------------------------------------------------------------------
\* C1: whenever at least one upload of a request succeeded, the finished
\* request has made exactly one post-creation call whose media-id list is the
\* identifiers of the successful uploads, in submission order, failed ones
\* absent, none repeated; a post is never made with any other list.
C1_PostCarriesSurvivors ==
  \A r \in reqs :
    LET ups == Uploads(r)
        ids == ReturnedIds(r)
    IN /\ Len(Posts(r)) <= 1
       /\ (pc[r] = "done" /\ Len(ids) > 0) => Len(Posts(r)) = 1
       /\ Len(Posts(r)) = 1 =>
            /\ Len(ups) = 4
            /\ \A k \in 1..4 : /\ ~InFlight(ups[k])
                               /\ ups[k].arg.media_data = Base64(ExpectedImage(k))
            /\ Posts(r)[1].arg.status = TWEET_STATUS
            /\ Posts(r)[1].arg.media_ids = Join(ids, ",")
            /\ NoRepeat(ids)
            /\ ids = SelectSeq([k \in 1..4 |-> MediaIdOf(r, k)],
                               LAMBDA id : \E k \in 1..4 :
                                   Ok(ups[k]) /\ id = MediaIdOf(r, k))
            /\ (\A k \in 1..4 : Ok(ups[k])) =>
                 Posts(r)[1].arg.media_ids =
                   MediaIdOf(r, 1) \o "," \o MediaIdOf(r, 2) \o "," \o
                   MediaIdOf(r, 3) \o "," \o MediaIdOf(r, 4)
            /\ (Failed(ups[1]) /\ Ok(ups[2]) /\ Failed(ups[3]) /\ Ok(ups[4])) =>
                 Posts(r)[1].arg.media_ids = MediaIdOf(r, 2) \o "," \o MediaIdOf(r, 4)

C1_Witness ==
  /\ pc[1] = "done"
  /\ Len(Posts(1)) = 1
  /\ Len(Uploads(1)) = 4
  /\ Failed(Uploads(1)[1]) /\ Ok(Uploads(1)[2])
  /\ Failed(Uploads(1)[3]) /\ Ok(Uploads(1)[4])
  /\ Posts(1)[1].arg.media_ids = "12,14"

\* C2: when all four uploads of a request have failed, the request has made
\* no post-creation call, and it has answered 200 with the success page and
\* nothing else.
C2_AllUploadsFailNoPost ==
  \A r \in reqs :
    (Len(Uploads(r)) = 4 /\ \A k \in 1..4 : Failed(Uploads(r)[k])) =>
      /\ Posts(r) = <<>>
      /\ pc[r] = "done"
      /\ responses[r] = <<SuccessResponse>>

C2_Witness ==
  /\ Len(Uploads(1)) = 4
  /\ \A k \in 1..4 : Failed(Uploads(1)[k])
  /\ pc[1] = "done"

\* C3: once the four resizes of a request have succeeded, whatever the
\* uploads and the post-creation call do, the only response the request ever
\* sends is 200 with the success page, and a finished request has sent it.
C3_PublishFailuresAbsorbed ==
  \A r \in reqs :
    AllResized(r) =>
      /\ responses[r] \in {<<>>, <<SuccessResponse>>}
      /\ pc[r] = "done" => responses[r] = <<SuccessResponse>>

C3_Witness ==
  /\ AllResized(1)
  /\ pc[1] = "done"
  /\ \E k \in 1..4 : Failed(Uploads(1)[k])
  /\ Len(Posts(1)) = 1
  /\ Failed(Posts(1)[1])
  /\ responses[1] = <<SuccessResponse>>

\* C4: when a resize of a request has failed, the request has ended with 500
\* "An internal error occurred.", the failed resize is the last call it made
\* (no later size is resized), and it made no upload and no post call.
C4_ResizeFailureAborts ==
  \A r \in reqs :
    (\E k \in 1..Len(Resizes(r)) : Failed(Resizes(r)[k])) =>
      /\ pc[r] = "done"
      /\ responses[r] = <<[status |-> 500, body |-> "An internal error occurred."]>>
      /\ Failed(calls[r][Len(calls[r])])
      /\ \A k \in 1..(Len(calls[r]) - 1) : Ok(calls[r][k])
      /\ calls[r] = Resizes(r)
      /\ Uploads(r) = <<>>
      /\ Posts(r) = <<>>

C4_Witness ==
  /\ Len(Resizes(1)) = 2
  /\ Ok(Resizes(1)[1])
  /\ Failed(Resizes(1)[2])
  /\ pc[1] = "done"

\* C5: a request without a file makes no call at all, sends nothing but
\* 400 "No file uploaded.", and has sent it when it is finished.
C5_NoFileRejected ==
  \A r \in reqs :
    file[r] = NoFile =>
      /\ calls[r] = <<>>
      /\ resizedBuffers[r] = <<>>
      /\ responses[r] \in {<<>>, <<[status |-> 400, body |-> "No file uploaded."]>>}
      /\ pc[r] = "done" => responses[r] # <<>>

C5_Witness == file[1] = NoFile /\ pc[1] = "done" /\ Len(responses[1]) = 1

\* C6: a request whose file declares a content type other than image/jpeg,
\* image/png and image/gif makes no call at all, sends nothing but
\* 400 "Unsupported file format.", and has sent it when it is finished.
C6_UnsupportedFormatRejected ==
  \A r \in reqs :
    (file[r] # NoFile /\ file[r].mimetype \notin {"image/jpeg", "image/png", "image/gif"}) =>
      /\ calls[r] = <<>>
      /\ resizedBuffers[r] = <<>>
      /\ responses[r] \in {<<>>, <<[status |-> 400, body |-> "Unsupported file format."]>>}
      /\ pc[r] = "done" => responses[r] # <<>>

C6_Witness ==
  /\ file[1] # NoFile
  /\ file[1].mimetype = "image/webp"
  /\ pc[1] = "done"
  /\ Len(responses[1]) = 1

\* C7: a request never holds more media references than resized images, and
\* from its first upload call on it holds four resized images, the k-th
\* being the image of the k-th configured size.
C7_CountsAndSizes ==
  \A r \in reqs :
    /\ Len(mediaIds[r]) <= Len(resizedBuffers[r])
    /\ Len(Uploads(r)) > 0 =>
         /\ Len(resizedBuffers[r]) = 4
         /\ \A k \in 1..4 :
              /\ resizedBuffers[r][k].width = ExpectedDims[k][1]
              /\ resizedBuffers[r][k].height = ExpectedDims[k][2]
              /\ resizedBuffers[r][k].buffer = ExpectedImage(k)

C7_Witness ==
  /\ pc[1] = "upload"
  /\ Len(Uploads(1)) = 1
  /\ InFlight(Uploads(1)[1])
  /\ Len(resizedBuffers[1]) = 4

\* What request r sends when it runs alone, given its file and the outcomes
\* of its own calls.
AloneResponse(r) ==
  IF file[r] = NoFile THEN [status |-> 400, body |-> "No file uploaded."]
  ELSE IF file[r].mimetype \notin {"image/jpeg", "image/png", "image/gif"}
    THEN [status |-> 400, body |-> "Unsupported file format."]
  ELSE IF \E k \in 1..Len(Resizes(r)) : Failed(Resizes(r)[k])
    THEN [status |-> 500, body |-> "An internal error occurred."]
  ELSE SuccessResponse

\* C8: with requests interleaved, the media references a request holds and
\* the list of its post-creation call are identifiers returned to that same
\* request, and a finished request has the response and the post it has
\* when run alone with the same outcomes of its calls.
C8_RequestsIsolated ==
  \A r \in reqs :
    /\ mediaIds[r] = ReturnedIds(r)
    /\ \A k \in 1..Len(mediaIds[r]) : \E i \in 1..4 : mediaIds[r][k] = MediaIdOf(r, i)
    /\ \A k \in 1..Len(Posts(r)) : Posts(r)[k].arg.media_ids = Join(ReturnedIds(r), ",")
    /\ pc[r] = "done" =>
         /\ responses[r] = <<AloneResponse(r)>>
         /\ Len(Posts(r)) = (IF AllResized(r) /\ Len(ReturnedIds(r)) > 0 THEN 1 ELSE 0)
         /\ Len(Uploads(r)) = (IF AllResized(r) THEN 4 ELSE 0)

C8_Witness ==
  /\ pc[1] = "post"
  /\ Posts(1)[1].arg.media_ids = "11,13"
  /\ pc[2] = "upload"
  /\ mediaIds[2] = <<"22">>

\* C9: the calls of a request are, in order, the resizes of sizes 1..4, the
\* uploads of images 1..4 and then at most one post; a call is made only
\* when the one before it has settled, a resize only after successful
\* resizes, an upload after a failed upload all the same; a request that
\* resized everything attempts each image exactly once before it finishes;
\* and no call is pending or made once the response is sent.
C9_StepsOrdered ==
  \A r \in reqs :
    LET cs == calls[r] IN
    /\ Len(cs) <= 9
    /\ \A k \in 1..Len(cs) :
         /\ k <= 4 => /\ cs[k].op = "resize"
                      /\ cs[k].arg.width = ExpectedDims[k][1]
                      /\ cs[k].arg.height = ExpectedDims[k][2]
         /\ (5 <= k /\ k <= 8) => /\ cs[k].op = "media/upload"
                                  /\ cs[k].arg.media_data = Base64(ExpectedImage(k - 4))
         /\ k = 9 => cs[k].op = "statuses/update"
         /\ k < Len(cs) => ~InFlight(cs[k])
         /\ (k < Len(cs) /\ k <= 4) => Ok(cs[k])
    /\ (pc[r] = "done" /\ AllResized(r)) => Len(Uploads(r)) = 4
    /\ (pc[r] = "done") = (responses[r] # <<>>)
    /\ responses[r] # <<>> => \A k \in 1..Len(cs) : ~InFlight(cs[k])

C9_Witness ==
  /\ pc[1] = "done"
  /\ Len(calls[1]) = 9
  /\ Failed(calls[1][6])
  /\ Ok(calls[1][7])
  /\ Ok(calls[1][8])
  /\ Ok(calls[1][9])

\* C10: every request that reaches the handler eventually is finished with
\* exactly one response, of status 400, 500 or 200; no request ever has two
\* responses; and nothing of a finished request changes any more.
C10_Terminates ==
  /\ \A r \in Req :
       (r \in reqs) ~> /\ pc[r] = "done"
                       /\ Len(responses[r]) = 1
                       /\ responses[r][1].status \in {400, 500, 200}
  /\ [](\A r \in Req : Len(responses[r]) <= 1)
  /\ [][\A r \in Req : pc[r] = "done" =>
          /\ pc'[r] = "done"
          /\ calls'[r] = calls[r]
          /\ responses'[r] = responses[r]
          /\ resizedBuffers'[r] = resizedBuffers[r]
          /\ mediaIds'[r] = mediaIds[r]]_vars

C10_Witness ==
  /\ pc[1] = "done"
  /\ Len(responses[1]) = 1
  /\ responses[1][1].status = 200
  /\ Len(calls[1]) = 9

====
